---- MODULE Spec2Model ----
(***************************************************************************)
(* A model of src/photo_api.py: the script that signs in to the photo      *)
(* library, pages through the albums, finds the album titled 'vision',     *)
(* pages through its media items and downloads them to vision_photos/.     *)
(*                                                                         *)
(* The program is one sequential process; pc is its position.  The server, *)
(* the user at the login page and the file system are the environment:     *)
(* their answers are drawn with \E where the code receives them.           *)
(*                                                                         *)
(* Encodings.  An optional value (a dictionary key that may be missing, a  *)
(* local that may be None) is a sequence of length 0 or 1.  A mime type is *)
(* the sequence of its '/'-separated parts, a file name the sequence of    *)
(* its '.'-separated parts, an album title the sequence of its characters, *)
(* so that split, join and lower are computed as the code computes them.   *)
(*                                                                         *)
(* The state space of the whole run is the product of its phases, so each  *)
(* phase is also given as a specification of its own, which starts at the  *)
(* phase's first line with the locals drawn from bounded sets:             *)
(*   SpecAuth    main, lines 146-150, with get_credentials                 *)
(*   SpecPaging  list_albums and get_media_items_in_album                  *)
(*   SpecFind    main, lines 156-166, with find_vision_album               *)
(*   SpecLoop    main, lines 172-211, with download_media_item             *)
(* Spec is the whole run.                                                  *)
(***************************************************************************)
EXTENDS Integers, Sequences, FiniteSets, TLC

VARIABLES
    pc,             \* the position of main (and of the function it is in)
    exc,            \* the exception raised outside any try block, "none" if none
    dirExists,      \* whether DOWNLOAD_DIR exists
    secretsFile,    \* whether CLIENT_SECRETS_FILE is there
    tokenFile,      \* TOKEN_FILE: <<>> when missing, else <<its content>>
    creds,          \* get_credentials' local creds: <<>> for None
    flowRuns,       \* how often the interactive login flow was run
    session,        \* main's authed_session: <<>> before it is built
    fn,             \* the paginated function being run, "none" outside one
    album_id,       \* get_media_items_in_album's argument
    nextPageToken,  \* the paginated function's local: <<>> for None
    acc,            \* the paginated function's local list (albums / media_items)
    sent,           \* the requests the paginated function has issued, in order
    got,            \* the responses it has received, in order
    albums,         \* main's albums
    vision_album,   \* main's vision_album: <<>> for None
    media_items,    \* main's media_items
    i,              \* the download loop's index
    extension,      \* main's local extension: <<>> while unbound
    download_url,   \* main's local download_url: <<>> while unbound
    filename,       \* main's local filename: <<>> while unbound
    successful,     \* main's counter of downloads that returned True
    disk,           \* DOWNLOAD_DIR: file name -> content, for the files in it
    httpGets,       \* the URLs download_media_item has requested, in order
    sleeps,         \* the loop indices before which time.sleep(1) was taken
    sinceSleep,     \* the calls of download_media_item since the last sleep
    calls           \* the calls of download_media_item, in order

authVars == <<dirExists, secretsFile, tokenFile, creds, flowRuns, session>>
pageVars == <<fn, album_id, nextPageToken, acc, sent, got>>
mainVars == <<albums, vision_album, media_items>>
loopVars == <<i, extension, download_url, filename, successful, disk,
              httpGets, sleeps, sinceSleep, calls>>
vars == <<pc, exc, authVars, pageVars, mainVars, loopVars>>

----------------------------------------------------------------------------
(* Bounds of the model. *)

\* The server answers at most this many requests of one paginated call with
\* a page that has a successor.
MaxRequests == 2
\* The longest page a response carries.
MaxPageLen == 2
\* The longest list of albums find_vision_album is given.
MaxAlbums == 3
\* The download loop is run on every list of media items up to MaxShort, and
\* on the lists up to MaxLong whose items are all alike.
MaxShort == 2
MaxLong == 21

(* Program constants. *)
AlbumPageSize == 50
MediaPageSize == 100
SleepEvery == 10
HttpOk == 200

----------------------------------------------------------------------------
(* Optional values. *)

None == <<>>
Some(v) == <<v>>
IsNone(o) == o = <<>>
Val(o) == o[1]

\* All sequences over S of length lo..hi.
SeqsOf(S, lo, hi) == UNION {[1..n -> S] : n \in lo..hi}

----------------------------------------------------------------------------
(* list_albums and get_media_items_in_album: the same loop over two         *)
(* endpoints.                                                               *)

\* Python's truth value of the local nextPageToken: None and '' are false.
TokenTruthy(tok) == ~IsNone(tok) /\ Val(tok) # ""

\* Lines 46-50 and 86-93: the request the loop builds.
Request(f, aid, tok) ==
    IF f = "list_albums"
    THEN [method |-> "GET", url |-> "v1/albums", albumId |-> None,
          pageSize |-> AlbumPageSize,
          pageToken |-> IF TokenTruthy(tok) THEN tok ELSE None]
    ELSE [method |-> "POST", url |-> "v1/mediaItems:search", albumId |-> Some(aid),
          pageSize |-> MediaPageSize,
          pageToken |-> IF TokenTruthy(tok) THEN tok ELSE None]

\* The items a page may carry: the loop never looks inside them.
AlbumSamples == {[id |-> "al1", title |-> Some(<<"v", "i", "s", "i", "o", "n">>)],
                 [id |-> "al2", title |-> None]}
MediaSamples == {[baseUrl |-> Some("urlA"), mimeType |-> Some(<<"image", "jpeg">>),
                  filename |-> Some(<<"a", "jpeg">>)],
                 [baseUrl |-> None, mimeType |-> None, filename |-> None]}
Samples(f) == IF f = "list_albums" THEN AlbumSamples ELSE MediaSamples

Tokens == {"", "tokA", "tokB"}
ErrorStatuses == {401, 500}

\* What the server may answer: an error status, or a 200 whose JSON has or
\* lacks the items field and has or lacks nextPageToken.
Responses(f) ==
    [status : ErrorStatuses, hasItems : {FALSE}, items : {<<>>},
     hasToken : {FALSE}, token : {""}]
    \cup
    [status : {HttpOk}, hasItems : {TRUE}, items : SeqsOf(Samples(f), 0, MaxPageLen),
     hasToken : {FALSE}, token : {""}]
    \cup
    [status : {HttpOk}, hasItems : {TRUE}, items : SeqsOf(Samples(f), 0, MaxPageLen),
     hasToken : {TRUE}, token : Tokens]
    \cup
    [status : {HttpOk}, hasItems : {FALSE}, items : {<<>>},
     hasToken : {FALSE}, token : {""}]
    \cup
    [status : {HttpOk}, hasItems : {FALSE}, items : {<<>>},
     hasToken : {TRUE}, token : Tokens]

\* Lines 54-69 and 101-116: whether the loop goes round again after r.
ContinuesOnError(r) == r.status # HttpOk \/ (r.hasItems /\ r.hasToken)
Continues(r) == r.status = HttpOk /\ r.hasItems /\ r.hasToken

\* Lines 60-61 and 107-108: the list after r.
ExtendedPrepend(list, r) ==
    IF r.status = HttpOk /\ r.hasItems THEN r.items \o list ELSE list
Extended(list, r) ==
    IF r.status = HttpOk /\ r.hasItems THEN list \o r.items ELSE list

\* Lines 64-65 and 111-112: the local nextPageToken after r.
TokenAfter(tok, r) == IF Continues(r) THEN Some(r.token) ELSE tok

\* Lines 45-52 and 85-99: the top of the loop, up to the request.
SendRequest ==
    /\ pc = "page_request"
    /\ sent' = Append(sent, Request(fn, album_id, nextPageToken))
    /\ pc' = "page_response"
    /\ UNCHANGED <<exc, authVars, fn, album_id, nextPageToken, acc, got,
                   mainVars, loopVars>>

\* Lines 54-69 and 101-116: the rest of the loop body, on the response.  The
\* server's listing is finite: its answer to request MaxRequests ends the loop.
HandleResponse ==
    /\ pc = "page_response"
    /\ \E r \in Responses(fn) :
        /\ Len(sent) = MaxRequests => ~Continues(r)
        /\ got' = Append(got, r)
        /\ acc' = Extended(acc, r)
        /\ nextPageToken' = TokenAfter(nextPageToken, r)
        /\ pc' = IF Continues(r) THEN "page_request" ELSE "page_return"
    /\ UNCHANGED <<exc, authVars, fn, album_id, sent, mainVars, loopVars>>

\* Lines 71 and 153: list_albums returns its list to main.
ReturnAlbums ==
    /\ pc = "page_return"
    /\ fn = "list_albums"
    /\ albums' = acc
    /\ pc' = "find"
    /\ UNCHANGED <<exc, authVars, pageVars, vision_album, media_items, loopVars>>

\* Lines 118 and 166: get_media_items_in_album returns its list to main.
ReturnMediaItems ==
    /\ pc = "page_return"
    /\ fn = "get_media_items_in_album"
    /\ media_items' = acc
    /\ pc' = "check_media"
    /\ UNCHANGED <<exc, authVars, pageVars, albums, vision_album, loopVars>>

----------------------------------------------------------------------------
(* main, lines 146-150, and get_credentials.                                *)

\* What google-auth keeps of a credential, as far as the code reads it:
\* whether there is an access token, whether its expiry has passed, whether
\* there is a refresh token.
Credentials == [token : BOOLEAN, expired : BOOLEAN, refresh_token : BOOLEAN]

\* creds.valid: there is a token and it has not expired.
Valid(c) == c.token /\ ~c.expired

\* creds.to_json() and Credentials.from_authorized_user_file: the token file
\* holds the token, the refresh token and the expiry, not the object.
ToJson(c) == [token |-> c.token, refresh_token |-> c.refresh_token,
              expiry_passed |-> c.expired]
FromJson(j) == [token |-> j.token, expired |-> j.expiry_passed,
                refresh_token |-> j.refresh_token]
TokenFiles == {None} \cup {Some(ToJson(c)) : c \in Credentials}

\* Line 28: the stored credentials can be refreshed.
Refreshable(c) == ~IsNone(c) /\ Val(c).expired /\ Val(c).refresh_token

\* Line 27: the stored credentials cannot be used as they are.
NeedsLogin(c) == IF IsNone(c) THEN TRUE ELSE ~Valid(Val(c))

\* Line 146: os.makedirs(DOWNLOAD_DIR, exist_ok=True).
MakeDirs ==
    /\ pc = "start"
    /\ dirExists' = TRUE
    /\ pc' = "auth_load"
    /\ UNCHANGED <<exc, secretsFile, tokenFile, creds, flowRuns, session,
                   pageVars, mainVars, loopVars>>

\* Lines 23-25.
LoadToken ==
    /\ pc = "auth_load"
    /\ creds' = IF IsNone(tokenFile) THEN None ELSE Some(FromJson(Val(tokenFile)))
    /\ pc' = "auth_check"
    /\ UNCHANGED <<exc, dirExists, secretsFile, tokenFile, flowRuns, session,
                   pageVars, mainVars, loopVars>>

\* Line 27, false: the stored credentials are returned as they are.
UseStored ==
    /\ pc = "auth_check"
    /\ ~NeedsLogin(creds)
    /\ pc' = "auth_return"
    /\ UNCHANGED <<exc, authVars, pageVars, mainVars, loopVars>>

\* Lines 28-29: creds.refresh(Request()).  It yields a fresh token, or raises
\* (the refresh token was revoked, the network is down); nothing catches it.
Refresh ==
    /\ pc = "auth_check"
    /\ NeedsLogin(creds)
    /\ Refreshable(creds)
    /\ \/ /\ creds' = Some([Val(creds) EXCEPT !.token = TRUE, !.expired = FALSE])
          /\ pc' = "auth_write"
          /\ UNCHANGED exc
       \/ /\ exc' = "RefreshError"
          /\ pc' = "crashed"
          /\ UNCHANGED creds
    /\ UNCHANGED <<dirExists, secretsFile, tokenFile, flowRuns, session,
                   pageVars, mainVars, loopVars>>

\* Lines 30-33: the interactive login.  from_client_secrets_file raises when
\* the file is missing; run_local_server yields new credentials, or raises
\* (the user denies access).
Login ==
    /\ pc = "auth_check"
    /\ NeedsLogin(creds)
    /\ ~Refreshable(creds)
    /\ \/ /\ ~secretsFile
          /\ exc' = "FileNotFoundError"
          /\ pc' = "crashed"
          /\ UNCHANGED <<creds, flowRuns>>
       \/ /\ secretsFile
          /\ flowRuns' = flowRuns + 1
          /\ \/ /\ \E rt \in BOOLEAN :
                     creds' = Some([token |-> TRUE, expired |-> FALSE,
                                    refresh_token |-> rt])
                /\ pc' = "auth_write"
                /\ UNCHANGED exc
             \/ /\ exc' = "AccessDeniedError"
                /\ pc' = "crashed"
                /\ UNCHANGED creds
    /\ UNCHANGED <<dirExists, secretsFile, tokenFile, session,
                   pageVars, mainVars, loopVars>>

\* Lines 35-36.
WriteToken ==
    /\ pc = "auth_write"
    /\ tokenFile' = Some(ToJson(Val(creds)))
    /\ pc' = "auth_return"
    /\ UNCHANGED <<exc, dirExists, secretsFile, creds, flowRuns, session,
                   pageVars, mainVars, loopVars>>

\* Lines 38 and 149-150: the credentials are returned and the session built.
BuildSession ==
    /\ pc = "auth_return"
    /\ session' = creds
    /\ pc' = "call_list_albums"
    /\ UNCHANGED <<exc, dirExists, secretsFile, tokenFile, creds, flowRuns,
                   pageVars, mainVars, loopVars>>

\* Lines 153 and 42-43: main calls list_albums.
CallListAlbums ==
    /\ pc = "call_list_albums"
    /\ fn' = "list_albums"
    /\ album_id' = ""
    /\ nextPageToken' = None
    /\ acc' = <<>>
    /\ sent' = <<>>
    /\ got' = <<>>
    /\ pc' = "page_request"
    /\ UNCHANGED <<exc, authVars, mainVars, loopVars>>

----------------------------------------------------------------------------
(* main, lines 156-170, and find_vision_album.                              *)

\* str.lower(), on the letters the titles are made of.
LowerChar(c) ==
    CASE c = "V" -> "v" [] c = "I" -> "i" [] c = "S" -> "s" [] c = "O" -> "o"
      [] c = "N" -> "n" [] c = "T" -> "t" [] c = "R" -> "r" [] c = "P" -> "p"
      [] OTHER -> c
Lower(str) == [k \in DOMAIN str |-> LowerChar(str[k])]

\* album.get('title', '').
TitleOf(album) == IF IsNone(album.title) THEN <<>> ELSE Val(album.title)

\* Line 76: the test of the loop.
IsVision(album) == Lower(TitleOf(album)) = <<"v", "i", "s", "i", "o", "n">>

\* Lines 75-78: the loop, from position k of the list on.
RECURSIVE FindFrom(_, _)
FindFrom(list, k) ==
    IF k > Len(list) THEN None
    ELSE IF IsVision(list[k]) THEN Some(list[k])
    ELSE FindFrom(list, k + 1)

RECURSIVE FindLastFrom(_, _)
FindLastFrom(list, k) ==
    IF k < 1 THEN None
    ELSE IF IsVision(list[k]) THEN Some(list[k])
    ELSE FindLastFrom(list, k - 1)

find_vision_album_last(list) == FindLastFrom(list, Len(list))
find_vision_album(list) == FindFrom(list, 1)

\* Line 156.
FindVisionAlbum ==
    /\ pc = "find"
    /\ vision_album' = find_vision_album(albums)
    /\ pc' = "check_album"
    /\ UNCHANGED <<exc, authVars, pageVars, albums, media_items, loopVars>>

\* Lines 158-160: no album is titled 'vision'; main returns.
NoVisionAlbum ==
    /\ pc = "check_album"
    /\ IsNone(vision_album)
    /\ pc' = "done"
    /\ UNCHANGED <<exc, authVars, pageVars, mainVars, loopVars>>

\* Lines 162-166 and 82-83: main calls get_media_items_in_album.
CallGetMediaItems ==
    /\ pc = "check_album"
    /\ ~IsNone(vision_album)
    /\ fn' = "get_media_items_in_album"
    /\ album_id' = Val(vision_album).id
    /\ nextPageToken' = None
    /\ acc' = <<>>
    /\ sent' = <<>>
    /\ got' = <<>>
    /\ pc' = "page_request"
    /\ UNCHANGED <<exc, authVars, mainVars, loopVars>>

\* Lines 168-170: the album has no media items; main returns.
NoMediaItems ==
    /\ pc = "check_media"
    /\ media_items = <<>>
    /\ pc' = "done"
    /\ UNCHANGED <<exc, authVars, pageVars, mainVars, loopVars>>

\* Lines 172-176: the download loop is entered.
EnterLoop ==
    /\ pc = "check_media"
    /\ media_items # <<>>
    /\ successful' = 0
    /\ i' = 0
    /\ pc' = "for"
    /\ UNCHANGED <<exc, authVars, pageVars, mainVars, extension, download_url,
                   filename, disk, httpGets, sleeps, sinceSleep, calls>>

----------------------------------------------------------------------------
(* main, lines 175-211, and download_media_item.                            *)

\* Line 178: the rate limiter's test.
ShouldSleepAtZeroToo(idx) == idx % SleepEvery = 0
ShouldSleep(idx) == idx > 0 /\ idx % SleepEvery = 0

\* Lines 182-183: Python's truth value of item.get('baseUrl').
HasBaseUrl(item) == ~IsNone(item.baseUrl) /\ Val(item.baseUrl) # ""

\* Line 187: item.get('mimeType', ''), as its '/'-separated parts.
MimeOf(item) == IF IsNone(item.mimeType) THEN <<"">> ELSE Val(item.mimeType)

\* Line 188: 'image' in mime_type.
IsImage(mime) == \E k \in DOMAIN mime : mime[k] = "image"

\* Lines 189-191: mime_type.split('/')[-1], with 'jpeg' turned into 'jpg'.
ExtensionOf(mime) ==
    LET last == mime[Len(mime)] IN IF last = "jpeg" THEN "jpg" ELSE last

\* Line 193.
DownloadUrlOf(item) == Val(item.baseUrl) \o "=d"

\* Lines 188-193: the locals extension and download_url after the item at
\* hand: assigned for an image, left as they were (or unbound) otherwise.
ExtensionAfter(ext, item) ==
    IF IsImage(MimeOf(item)) THEN Some(ExtensionOf(MimeOf(item))) ELSE ext
DownloadUrlAfter(url, item) ==
    IF IsImage(MimeOf(item)) THEN Some(DownloadUrlOf(item)) ELSE url

\* Lines 196-204: the file name, as its '.'-separated parts.
FilenameOf(item, idx, ext) ==
    IF ~IsNone(item.filename)
    THEN LET original == Val(item.filename) IN
         IF Len(original) > 1
         THEN Append(SubSeq(original, 1, Len(original) - 1), ext)
         ELSE Append(original, ext)
    ELSE <<"photo_" \o ToString(idx + 1), ext>>

\* Line 126: os.path.exists(filepath).
ExistsNever(name) == FALSE
Exists(name) == name \in DOMAIN disk

\* Lines 135-136: the file system after name was written with content.
Written(name, content) ==
    [f \in DOMAIN disk \cup {name} |-> IF f = name THEN content ELSE disk[f]]

\* Line 140: what the except clause catches.  The exceptions of lines 131-136
\* are requests' (ConnectionError, HTTPError) and OSError.
DownloadErrors == {"ConnectionError", "HTTPError", "OSError"}
CaughtHttpOnly(e) == e = "HTTPError"
Caught(e) == e \in DownloadErrors

\* Lines 176-179: the loop takes the next item and sleeps when it is due.
RateLimit ==
    /\ pc = "for"
    /\ i < Len(media_items)
    /\ IF ShouldSleep(i)
       THEN sleeps' = sleeps \cup {i} /\ sinceSleep' = 0
       ELSE UNCHANGED <<sleeps, sinceSleep>>
    /\ pc' = "item"
    /\ UNCHANGED <<exc, authVars, pageVars, mainVars, i, extension, download_url,
                   filename, successful, disk, httpGets, calls>>

\* Lines 182-184: an item without a baseUrl is passed over.
SkipItem ==
    /\ pc = "item"
    /\ ~HasBaseUrl(media_items[i + 1])
    /\ i' = i + 1
    /\ pc' = "for"
    /\ UNCHANGED <<exc, authVars, pageVars, mainVars, extension, download_url,
                   filename, successful, disk, httpGets, sleeps, sinceSleep, calls>>

\* Lines 187-206: the extension, the URL and the file name.  Reading the
\* local extension while it is unbound raises UnboundLocalError.
PrepareItem ==
    /\ pc = "item"
    /\ HasBaseUrl(media_items[i + 1])
    /\ LET item == media_items[i + 1]
           ext == ExtensionAfter(extension, item)
       IN  /\ extension' = ext
           /\ download_url' = DownloadUrlAfter(download_url, item)
           /\ IF IsNone(ext)
              THEN /\ exc' = "UnboundLocalError"
                   /\ pc' = "crashed"
                   /\ UNCHANGED filename
              ELSE /\ filename' = Some(FilenameOf(item, i, Val(ext)))
                   /\ pc' = "download"
                   /\ UNCHANGED exc
    /\ UNCHANGED <<authVars, pageVars, mainVars, i, successful, disk, httpGets,
                   sleeps, sinceSleep, calls>>

\* Lines 207-208 with 142, or the exception leaving main: the call of
\* download_media_item ended by exception e.
Failed(e) ==
    /\ calls' = Append(calls, [index |-> i, url |-> Val(download_url),
                               filename |-> Val(filename), raised |-> TRUE,
                               result |-> FALSE])
    /\ sinceSleep' = sinceSleep + 1
    /\ IF Caught(e)
       THEN i' = i + 1 /\ pc' = "for" /\ UNCHANGED exc
       ELSE exc' = e /\ pc' = "crashed" /\ UNCHANGED i
    /\ UNCHANGED successful

\* Lines 207-208 with 128 or 139: the call returned True.
Succeeded ==
    /\ calls' = Append(calls, [index |-> i, url |-> Val(download_url),
                               filename |-> Val(filename), raised |-> FALSE,
                               result |-> TRUE])
    /\ sinceSleep' = sinceSleep + 1
    /\ successful' = successful + 1
    /\ i' = i + 1
    /\ pc' = "for"
    /\ UNCHANGED exc

\* Lines 207 and 123-128: the file is there already.
DownloadSkip ==
    /\ pc = "download"
    /\ Exists(Val(filename))
    /\ Succeeded
    /\ UNCHANGED <<authVars, pageVars, mainVars, extension, download_url,
                   filename, disk, httpGets, sleeps>>

\* Lines 207 and 123-139: the file is fetched and written.
DownloadOk ==
    /\ pc = "download"
    /\ ~Exists(Val(filename))
    /\ httpGets' = Append(httpGets, Val(download_url))
    /\ disk' = Written(Val(filename), Val(download_url))
    /\ Succeeded
    /\ UNCHANGED <<authVars, pageVars, mainVars, extension, download_url,
                   filename, sleeps>>

\* Lines 131-132: requests.get raises, or raise_for_status does.
DownloadHttpFails ==
    /\ pc = "download"
    /\ ~Exists(Val(filename))
    /\ httpGets' = Append(httpGets, Val(download_url))
    /\ \E e \in {"ConnectionError", "HTTPError"} : Failed(e)
    /\ UNCHANGED <<authVars, pageVars, mainVars, extension, download_url,
                   filename, disk, sleeps>>

\* Lines 135-136: open raises and there is no file, or write raises and the
\* file is left as open created it, empty.
DownloadWriteFails ==
    /\ pc = "download"
    /\ ~Exists(Val(filename))
    /\ httpGets' = Append(httpGets, Val(download_url))
    /\ \/ UNCHANGED disk
       \/ disk' = Written(Val(filename), "")
    /\ Failed("OSError")
    /\ UNCHANGED <<authVars, pageVars, mainVars, extension, download_url,
                   filename, sleeps>>

\* Lines 210-211: the loop is over and the summary is printed.
Summary ==
    /\ pc = "for"
    /\ i = Len(media_items)
    /\ pc' = "completed"
    /\ UNCHANGED <<exc, authVars, pageVars, mainVars, loopVars>>

----------------------------------------------------------------------------
(* The initial states.                                                      *)

\* The download directory before the run: empty, or holding one older file.
EmptyDisk == [f \in {} |-> ""]
PreFiles == {<<"a", "b", "jpg">>, <<"photo_1", "jpg">>}
PreDisks == {EmptyDisk} \cup {[f \in {name} |-> "old"] : name \in PreFiles}

\* The albums find_vision_album is given: the album at position k has id alk.
Titles == {None,
           Some(<<"v", "i", "s", "i", "o", "n">>),
           Some(<<"V", "i", "s", "i", "o", "n">>),
           Some(<<"V", "I", "S", "I", "O", "N">>),
           Some(<<"v", "i", "s", "i", "o", "n", "s">>),
           Some(<<"T", "r", "i", "p">>)}
MkAlbums(titles) ==
    [k \in 1..Len(titles) |-> [id |-> "al" \o ToString(k), title |-> titles[k]]]
AlbumLists == {MkAlbums(t) : t \in SeqsOf(Titles, 0, MaxAlbums)}

\* The media items the download loop is given: the item at position k, when
\* it has a baseUrl, has urlk.  The code reads nothing else of an item that
\* has none.
Mimes == {None, Some(<<"image", "jpeg">>), Some(<<"image", "png">>),
          Some(<<"video", "mp4">>)}
Names == {None, Some(<<"a", "b", "jpeg">>), Some(<<"c">>)}
ItemShapes ==
    {[hasUrl |-> FALSE, mimeType |-> None, filename |-> None]}
    \cup [hasUrl : {TRUE}, mimeType : Mimes, filename : Names]
MkItems(shapes) ==
    [k \in 1..Len(shapes) |->
        [baseUrl |-> IF shapes[k].hasUrl THEN Some("url" \o ToString(k)) ELSE None,
         mimeType |-> shapes[k].mimeType,
         filename |-> shapes[k].filename]]
ShortLists == {MkItems(s) : s \in SeqsOf(ItemShapes, 0, MaxShort)}
\* The long lists: every item alike, and named or without a baseUrl.
LongShapes == {s \in ItemShapes : ~s.hasUrl \/ ~IsNone(s.filename)}
LongLists ==
    {MkItems([k \in 1..n |-> s]) : n \in (MaxShort + 1)..MaxLong, s \in LongShapes}

\* The state main is in once it is signed in.
SignedIn == [token |-> TRUE, expired |-> FALSE, refresh_token |-> TRUE]
AuthDone ==
    /\ dirExists = TRUE
    /\ secretsFile = TRUE
    /\ tokenFile = Some(ToJson(SignedIn))
    /\ creds = Some(SignedIn)
    /\ flowRuns = 0
    /\ session = Some(SignedIn)

\* The locals of a paginated call that got list as its only page.
OnePage(f, aid, list) ==
    /\ fn = f
    /\ album_id = aid
    /\ nextPageToken = None
    /\ acc = list
    /\ sent = <<Request(f, aid, None)>>
    /\ got = <<[status |-> HttpOk, hasItems |-> TRUE, items |-> list,
                hasToken |-> FALSE, token |-> ""]>>

TheVisionAlbum == [id |-> "al1", title |-> Some(<<"v", "i", "s", "i", "o", "n">>)]

LoopIdle ==
    /\ i = 0
    /\ extension = None
    /\ download_url = None
    /\ filename = None
    /\ successful = 0
    /\ httpGets = <<>>
    /\ sleeps = {}
    /\ sinceSleep = 0
    /\ calls = <<>>

\* The start of main.
Init ==
    /\ pc = "start"
    /\ exc = "none"
    /\ dirExists \in BOOLEAN
    /\ secretsFile \in BOOLEAN
    /\ tokenFile \in TokenFiles
    /\ creds = None
    /\ flowRuns = 0
    /\ session = None
    /\ fn = "none"
    /\ album_id = ""
    /\ nextPageToken = None
    /\ acc = <<>>
    /\ sent = <<>>
    /\ got = <<>>
    /\ albums = <<>>
    /\ vision_album = None
    /\ media_items = <<>>
    /\ LoopIdle
    /\ disk \in IF dirExists THEN PreDisks ELSE {EmptyDisk}

\* The entry of list_albums (line 42) or of get_media_items_in_album (line 82).
InitPaging ==
    /\ pc = "page_request"
    /\ exc = "none"
    /\ AuthDone
    /\ \/ /\ fn = "list_albums"
          /\ album_id = ""
          /\ albums = <<>>
          /\ vision_album = None
       \/ /\ fn = "get_media_items_in_album"
          /\ album_id = TheVisionAlbum.id
          /\ albums = <<TheVisionAlbum>>
          /\ vision_album = Some(TheVisionAlbum)
    /\ nextPageToken = None
    /\ acc = <<>>
    /\ sent = <<>>
    /\ got = <<>>
    /\ media_items = <<>>
    /\ LoopIdle
    /\ disk = EmptyDisk

\* Line 156, list_albums having returned.
InitFind ==
    /\ pc = "find"
    /\ exc = "none"
    /\ AuthDone
    /\ albums \in AlbumLists
    /\ OnePage("list_albums", "", albums)
    /\ vision_album = None
    /\ media_items = <<>>
    /\ LoopIdle
    /\ disk = EmptyDisk

\* Line 168, get_media_items_in_album having returned.
InitLoop ==
    /\ pc = "check_media"
    /\ exc = "none"
    /\ AuthDone
    /\ albums = <<TheVisionAlbum>>
    /\ vision_album = Some(TheVisionAlbum)
    /\ media_items \in ShortLists \cup LongLists
    /\ OnePage("get_media_items_in_album", TheVisionAlbum.id, media_items)
    /\ LoopIdle
    /\ disk \in PreDisks

----------------------------------------------------------------------------
(* The specifications.                                                      *)

NextAuth ==
    \/ MakeDirs
    \/ LoadToken
    \/ UseStored
    \/ Refresh
    \/ Login
    \/ WriteToken
    \/ BuildSession
    \/ CallListAlbums

NextPaging ==
    \/ SendRequest
    \/ HandleResponse
    \/ ReturnAlbums
    \/ ReturnMediaItems

NextFind ==
    \/ FindVisionAlbum
    \/ NoVisionAlbum
    \/ CallGetMediaItems
    \/ SendRequest

NextLoop ==
    \/ NoMediaItems
    \/ EnterLoop
    \/ RateLimit
    \/ SkipItem
    \/ PrepareItem
    \/ DownloadSkip
    \/ DownloadOk
    \/ DownloadHttpFails
    \/ DownloadWriteFails
    \/ Summary

Next ==
    \/ MakeDirs
    \/ LoadToken
    \/ UseStored
    \/ Refresh
    \/ Login
    \/ WriteToken
    \/ BuildSession
    \/ CallListAlbums
    \/ SendRequest
    \/ HandleResponse
    \/ ReturnAlbums
    \/ ReturnMediaItems
    \/ FindVisionAlbum
    \/ NoVisionAlbum
    \/ CallGetMediaItems
    \/ NoMediaItems
    \/ EnterLoop
    \/ RateLimit
    \/ SkipItem
    \/ PrepareItem
    \/ DownloadSkip
    \/ DownloadOk
    \/ DownloadHttpFails
    \/ DownloadWriteFails
    \/ Summary

Spec == Init /\ [][Next]_vars
SpecAuth == Init /\ [][NextAuth]_vars
SpecPaging == InitPaging /\ [][NextPaging]_vars
SpecFind == InitFind /\ [][NextFind]_vars
SpecLoop == InitLoop /\ [][NextLoop]_vars
\* The program is sequential and nothing it waits for is modelled as never
\* answering: while it has a next step it takes it.
SpecLoopFair == SpecLoop /\ WF_vars(NextLoop)

----------------------------------------------------------------------------
(* The properties.                                                          *)

\* The items of the first n responses, page after page.
RECURSIVE PagesUpTo(_)
PagesUpTo(n) ==
    IF n = 0 THEN <<>>
    ELSE PagesUpTo(n - 1) \o
         (IF got[n].status = HttpOk /\ got[n].hasItems THEN got[n].items ELSE <<>>)

\* The paginated function has returned, and what it returned.
Returned == pc \in {"find", "check_media"}
Result == IF fn = "list_albums" THEN albums ELSE media_items

\* A call of download_media_item raised inside its try block.
SomeDownloadRaised == \E k \in DOMAIN calls : calls[k].raised

\* C1: a download that fails (HTTP error status, network exception, file
\* exception) makes download_media_item return False and does not end main:
\* no exception stops main, which stays in its loop while items are left, is
\* at its summary only when every item has been gone through, and does get
\* to its summary.
C1_FailedDownloadDoesNotStopMain ==
    /\ [](SomeDownloadRaised =>
            /\ \A k \in DOMAIN calls : calls[k].raised => ~calls[k].result
            /\ pc \in {"for", "item", "download", "completed"}
            /\ exc = "none"
            /\ pc = "for" => i <= Len(media_items)
            /\ pc \in {"item", "download"} => i < Len(media_items)
            /\ pc = "completed" => i = Len(media_items))
    /\ (SomeDownloadRaised ~> pc = "completed")

\* C1's case: a download failed, a later item was downloaded, and main is at
\* its summary.
C1_Witness ==
    /\ pc = "completed"
    /\ \E k \in DOMAIN calls : \E l \in DOMAIN calls :
        /\ k < l
        /\ calls[k].raised
        /\ calls[l].result
        /\ calls[l].filename \in DOMAIN disk
        /\ disk[calls[l].filename] = calls[l].url

\* C2: the first response whose status is not 200 is the last one: no
\* request follows it, and the function returns the items of the pages
\* before it.
C2_ErrorStatusEndsPagination ==
    \A k \in DOMAIN got :
        got[k].status # HttpOk =>
            /\ k = Len(got)
            /\ Len(sent) = k
            /\ pc # "page_request"
            /\ acc = PagesUpTo(k - 1)
            /\ Returned => Result = PagesUpTo(k - 1)

\* C2's case: the second response is an error, and the function has
\* returned the first page only.
C2_Witness ==
    /\ Returned
    /\ Len(got) = 2
    /\ got[2].status # HttpOk
    /\ Len(got[1].items) = 2
    /\ Result = got[1].items

\* C3: when the stored credentials are loaded and their refresh fails, the
\* interactive login is run, and its credentials are written to the token
\* file and returned.
C3_RefreshFailureFallsBackToLogin ==
    (exc = "RefreshError"
        /\ pc \in {"crashed", "auth_return", "call_list_albums", "page_request"}) =>
        /\ pc # "crashed"
        /\ flowRuns = 1
        /\ ~IsNone(creds)
        /\ tokenFile = Some(ToJson(Val(creds)))

\* The loop indices whose iteration has begun.
Begun ==
    IF pc \in {"item", "download", "crashed"} THEN 0..i ELSE 0..(i - 1)

\* C4: the sleeps taken are exactly those before the items at the positive
\* multiples of ten, so none is taken before the first ten items, and never
\* more than ten calls of download_media_item go by without one.
C4_SleepBeforeEveryTenthItem ==
    /\ sleeps = {k \in Begun : k > 0 /\ k % SleepEvery = 0}
    /\ \A k \in sleeps : k >= SleepEvery
    /\ sinceSleep <= SleepEvery

\* C4's case: ten downloads were called without a sleep, and the sleep
\* before the eleventh item has just been taken.
C4_Witness ==
    /\ pc = "item"
    /\ i = SleepEvery
    /\ Len(calls) = SleepEvery
    /\ sleeps = {SleepEvery}
    /\ sinceSleep = 0

\* C5: download_media_item called with the name of a file that is there
\* requests nothing, leaves the directory as it is and returns True.
C5_ExistingFileIsSkipped ==
    [][(pc = "download" /\ Val(filename) \in DOMAIN disk) =>
        /\ httpGets' = httpGets
        /\ disk' = disk
        /\ Len(calls') = Len(calls) + 1
        /\ calls'[Len(calls')].result]_vars

\* C5's case: a call returned True for a file that is still the older one.
C5_Witness ==
    \E k \in DOMAIN calls :
        /\ calls[k].result
        /\ calls[k].filename \in DOMAIN disk
        /\ disk[calls[k].filename] = "old"
        /\ httpGets = <<>>

\* C6: when every response is a 200, the loop ends at the first response
\* that lacks the items field or nextPageToken, and the list is the items
\* of all the pages received, in page order and in the order within each
\* page; a page without the items field adds nothing and ends the loop
\* whatever its nextPageToken.
C6_PagesConcatenatedInOrder ==
    (\A k \in DOMAIN got : got[k].status = HttpOk) =>
        /\ \A k \in DOMAIN got :
            IF got[k].hasItems /\ got[k].hasToken
            THEN k < Len(sent) \/ pc = "page_request"
            ELSE k = Len(got) /\ Len(sent) = k /\ pc # "page_request"
        /\ acc = PagesUpTo(Len(got))
        /\ Returned => Result = PagesUpTo(Len(got))

\* C6's case: two pages, the first of two different items and the second
\* without nextPageToken, were received and the function has returned.
C6_Witness ==
    /\ Returned
    /\ Len(got) = 2
    /\ \A k \in DOMAIN got : got[k].status = HttpOk
    /\ Len(got[1].items) = 2
    /\ got[1].items[1] # got[1].items[2]
    /\ Len(got[2].items) = 1
    /\ ~got[2].hasToken
    /\ Len(Result) = 3

\* C7: the first request has no pageToken, and every later request carries
\* the nextPageToken of the response before it, whatever its value.
C7_EveryLaterRequestCarriesTheToken ==
    \A k \in DOMAIN sent :
        IF k = 1
        THEN IsNone(sent[k].pageToken)
        ELSE sent[k].pageToken = Some(got[k - 1].token)

\* C8: every call of download_media_item has the URL made of its own item's
\* baseUrl and the extension made of its own item's mimeType.
C8_UrlAndExtensionAreTheItemsOwn ==
    \A k \in DOMAIN calls :
        LET item == media_items[calls[k].index + 1] IN
        /\ calls[k].url = Val(item.baseUrl) \o "=d"
        /\ calls[k].filename[Len(calls[k].filename)] = ExtensionOf(MimeOf(item))

\* The spellings, among the titles drawn, that lower() turns into 'vision'.
VisionSpellings == {Some(<<"v", "i", "s", "i", "o", "n">>),
                    Some(<<"V", "i", "s", "i", "o", "n">>),
                    Some(<<"V", "I", "S", "I", "O", "N">>)}

\* C9: find_vision_album returns the first album of the list whose title
\* in lower case is 'vision', and None when there is none; when it returns
\* None main ends with no search request and no download.
C9_FirstVisionAlbumOrNone ==
    pc # "find" =>
        /\ (\A k \in DOMAIN albums : albums[k].title \notin VisionSpellings)
              => IsNone(vision_album)
        /\ \A k \in DOMAIN albums :
              (/\ albums[k].title \in VisionSpellings
               /\ \A j \in 1..(k - 1) : albums[j].title \notin VisionSpellings)
              => vision_album = Some(albums[k])
        /\ IsNone(vision_album) =>
              /\ pc \in {"check_album", "done"}
              /\ \A k \in DOMAIN sent : sent[k].url # "v1/mediaItems:search"
              /\ httpGets = <<>>
              /\ calls = <<>>

\* C9's case: no album is titled 'vision', though one comes close and one
\* has no title, and main has ended.
C9_Witness ==
    /\ pc = "done"
    /\ IsNone(vision_album)
    /\ \E k \in DOMAIN albums : albums[k].title = Some(<<"v", "i", "s", "i", "o", "n", "s">>)
    /\ \E k \in DOMAIN albums : IsNone(albums[k].title)

====
